---- MODULE Spec2Model ----
(***************************************************************************)
(* SEV-SNP page state change, guest side:                                  *)
(* OvmfPkg/Library/BaseMemEncryptSevLib/X64/SnpPageStateChangeInternal.c   *)
(*                                                                         *)
(* One call of InternalSetPageState is modelled as a sequential program.   *)
(* A step of the model is the code between two calls of an external        *)
(* primitive (AsmPvalidate, CcExitVmgInit, CcExitVmgExit, CcExitVmgDone,   *)
(* AsmWriteMsr64, AsmVmgExit, CpuDeadLoop); the results of the primitives  *)
(* (the PVALIDATE return code, what the hypervisor writes to the shared    *)
(* buffer and to the save area) are chosen nondeterministically.           *)
(* Addresses are byte addresses below 2^31, so the 40 bit width of the     *)
(* GuestFrameNumber field and the 64 bit width of EFI_PHYSICAL_ADDRESS     *)
(* never truncate here; the 16 bit header indices are kept at their width. *)
(* The variable h and the variable last are history variables: they record *)
(* what the program did and are never read by it.                          *)
(***************************************************************************)
EXTENDS Integers, Sequences, FiniteSets, TLC

VARIABLES
    pc,             \* position of the program
    arg,            \* the arguments of InternalSetPageState
    NextAddress,    \* InternalSetPageState: NextAddress
    EndAddress,     \* InternalSetPageState: EndAddress
    Info,           \* the caller's scratch buffer (SNP_PAGE_STATE_CHANGE_INFO)
    StartIndex,     \* PvalidateRange: StartIndex
    EndIndex,       \* PvalidateRange: EndIndex
    PvIndex,        \* PvalidateRange: Index (demotion loop)
    Address,        \* PvalidateRange: Address
    Ret,            \* PvalidateRange: Ret
    PscIndex,       \* PageStateChange: Index (UINT16)
    Count,          \* PageStateChange: Count (UINT16)
    Ghcb,           \* the GHCB: shared buffer, save area, session
    Status,         \* PageStateChangeVmgExit: Status
    InterruptState, \* PageStateChangeVmgExit: InterruptState
    Interrupts,     \* the processor's interrupt flag
    Msr,            \* the GHCB MSR as last written by the guest
    last,           \* history: the last external primitive that was called
    h               \* history: counters and monitors

vars == <<pc, arg, NextAddress, EndAddress, Info, StartIndex, EndIndex, PvIndex,
          Address, Ret, PscIndex, Count, Ghcb, Status, InterruptState, Interrupts,
          Msr, last, h>>

(***************************************************************************)
(* Program constants                                                       *)
(***************************************************************************)
PAGES_PER_LARGE_ENTRY == 512
EFI_PAGE_SHIFT == 12
EFI_PAGE_SIZE == 4096
SIZE_2MB == 2097152
PvalidatePageSize4K == 0
PvalidatePageSize2MB == 1
SNP_PAGE_STATE_PRIVATE == 1
SNP_PAGE_STATE_SHARED == 2
SNP_PAGE_STATE_MAX_ENTRY == 253
PVALIDATE_RET_SUCCESS == 0
PVALIDATE_RET_FAIL_INPUT == 1
PVALIDATE_RET_SIZE_MISMATCH == 6
SizeofHeader == 8
SizeofEntry == 8
UINT16_MOD == 65536
GHCB_INFO_TERMINATE_REQUEST == 256
GHCB_TERMINATE_GHCB == 0
GHCB_TERMINATE_GHCB_GENERAL == 0

(***************************************************************************)
(* Bounds of the model                                                     *)
(***************************************************************************)
MaxCapacity == 3        \* scratch buffers of 1..MaxCapacity entries
MaxSmallPages == 3      \* ranges of 1..MaxSmallPages pages, alone or after 2 MiB
MaxPartial == 2         \* partial-progress resumptions by the hypervisor per batch

Min(a, b) == IF a < b THEN a ELSE b

ShiftRight(a, n) == a \div (2 ^ n)
ShiftLeft(a, n) == a * (2 ^ n)
IS_ALIGNED(a, size) == a % size = 0
EFI_PAGES_TO_SIZE(n) == ShiftLeft(n, EFI_PAGE_SHIFT)
ToUint16(n) == n % UINT16_MOD

MemoryStateToGhcbOp(State) ==
    IF State = "SevSnpPageShared" THEN SNP_PAGE_STATE_SHARED ELSE SNP_PAGE_STATE_PRIVATE

ZeroEntry == [GuestFrameNumber |-> 0, PageSize |-> 0, Operation |-> 0, CurrentPage |-> 0]

(***************************************************************************)
(* The Entry array of a buffer is kept as a sequence of runs.  A run       *)
(* stands for count entries that differ in GuestFrameNumber alone: entry j *)
(* of the run (from 0) is first with j * step added to GuestFrameNumber.   *)
(* A run of one entry has step 0.  Indices are those of the C array.       *)
(***************************************************************************)
Run(e, n, d) == [first |-> e, count |-> n, step |-> IF n = 1 THEN 0 ELSE d]

\* n copies of e
RunsFill(e, n) == IF n = 0 THEN <<>> ELSE <<Run(e, n, 0)>>

RECURSIVE RunsLen(_)
RunsLen(rs) == IF rs = <<>> THEN 0 ELSE Head(rs).count + RunsLen(Tail(rs))

\* Entry[i]
RECURSIVE RunsAt(_, _)
RunsAt(rs, i) ==
    LET r == Head(rs)
    IN IF i < r.count
       THEN [r.first EXCEPT !.GuestFrameNumber = @ + i * r.step]
       ELSE RunsAt(Tail(rs), i - r.count)

\* Entry[from] .. Entry[from + cnt - 1]
RECURSIVE RunsSlice(_, _, _)
RunsSlice(rs, from, cnt) ==
    IF cnt = 0 THEN <<>>
    ELSE LET r == Head(rs)
         IN IF from >= r.count
            THEN RunsSlice(Tail(rs), from - r.count, cnt)
            ELSE LET take == Min(cnt, r.count - from)
                 IN <<Run(RunsAt(<<r>>, from), take, r.step)>>
                       \o RunsSlice(Tail(rs), 0, cnt - take)

\* The entries of rs followed by those of the run r
RunsJoin(rs, r) ==
    IF rs = <<>> THEN <<r>>
    ELSE LET l == rs[Len(rs)]
             d == r.first.GuestFrameNumber
                    - (l.first.GuestFrameNumber + (l.count - 1) * l.step)
         IN IF /\ [l.first EXCEPT !.GuestFrameNumber = 0]
                    = [r.first EXCEPT !.GuestFrameNumber = 0]
               /\ (l.count = 1 \/ l.step = d)
               /\ (r.count = 1 \/ r.step = d)
            THEN [rs EXCEPT ![Len(rs)] = Run(l.first, l.count + r.count, d)]
            ELSE Append(rs, r)

\* The entries of a followed by those of b
RECURSIVE RunsConcat(_, _)
RunsConcat(a, b) ==
    IF b = <<>> THEN a ELSE RunsConcat(RunsJoin(a, Head(b)), Tail(b))

\* The entries of rs with Entry[i] replaced by e
RunsSet(rs, i, e) ==
    LET n == RunsLen(rs)
    IN RunsConcat(RunsConcat(RunsSlice(rs, 0, i), <<Run(e, 1, 0)>>),
                  RunsSlice(rs, i + 1, n - i - 1))

ZeroInfo(IndexMax) ==
    [Header |-> [CurrentEntry |-> 0, EndEntry |-> 0],
     Entry |-> RunsFill(ZeroEntry, IndexMax)]

\* The address and the size in bytes that an entry stands for
EntryAddress(e) == ShiftLeft(e.GuestFrameNumber, EFI_PAGE_SHIFT)
EntryBytes(e) == IF e.PageSize = PvalidatePageSize2MB THEN SIZE_2MB ELSE EFI_PAGE_SIZE
EntryEnd(e) == EntryAddress(e) + EntryBytes(e)

(***************************************************************************)
(* BuildPageStateBuffer                                                    *)
(***************************************************************************)
\* As BuildUseLarge, without the test of what remains before End
BuildUseLarge_NoRemainingTest(BaseAddress, End, UseLargeEntry) ==
    /\ UseLargeEntry
    /\ IS_ALIGNED(BaseAddress, SIZE_2MB)

\* The test of lines 163-164: may the entry at BaseAddress be a 2 MiB entry?
BuildUseLarge(BaseAddress, End, UseLargeEntry) ==
    /\ UseLargeEntry
    /\ IS_ALIGNED(BaseAddress, SIZE_2MB)
    /\ (End - BaseAddress) >= SIZE_2MB

\* RmpPageSize and NextAddress as one iteration of the loop sets them
BuildRmpPageSize(BaseAddress, End, UseLargeEntry) ==
    IF BuildUseLarge(BaseAddress, End, UseLargeEntry)
    THEN PvalidatePageSize2MB
    ELSE PvalidatePageSize4K

\* As BuildNextAddress, advancing by one page after every entry
BuildNextAddress_AlwaysSmall(BaseAddress, End, UseLargeEntry) ==
    BaseAddress + EFI_PAGE_SIZE

BuildNextAddress(BaseAddress, End, UseLargeEntry) ==
    IF BuildUseLarge(BaseAddress, End, UseLargeEntry)
    THEN BaseAddress + SIZE_2MB
    ELSE BaseAddress + EFI_PAGE_SIZE

\* The entry one iteration of the loop writes (lines 173-176)
BuildEntry(BaseAddress, End, State, UseLargeEntry) ==
    [GuestFrameNumber |-> ShiftRight(BaseAddress, EFI_PAGE_SHIFT),
     PageSize         |-> BuildRmpPageSize(BaseAddress, End, UseLargeEntry),
     Operation        |-> MemoryStateToGhcbOp(State),
     CurrentPage      |-> 0]

\* At most n iterations of the loop of lines 159-181 from BaseAddress: the
\* entries written and the value of BaseAddress afterwards.  n iterations are
\* n \div 2 iterations followed by the rest, which keeps the evaluation shallow
\* for buffers of 2^16 entries and more.  What the first part leaves is
\* evaluated once, as the one element of a set, before the rest starts from it.
Only(S) == CHOOSE x \in S : TRUE

RECURSIVE BuildLoop(_, _, _, _, _)
RECURSIVE BuildRest(_, _, _, _, _)
BuildRest(first, End, State, UseLargeEntry, n) ==
    Only({[Entries     |-> RunsConcat(first.Entries, rest.Entries),
           BaseAddress |-> rest.BaseAddress] :
             rest \in {BuildLoop(first.BaseAddress, End, State, UseLargeEntry, n)}})

BuildLoop(BaseAddress, End, State, UseLargeEntry, n) ==
    IF ~(BaseAddress < End) \/ n = 0
    THEN [Entries |-> <<>>, BaseAddress |-> BaseAddress]
    ELSE IF n = 1
    THEN [Entries     |-> <<Run(BuildEntry(BaseAddress, End, State, UseLargeEntry), 1, 0)>>,
          BaseAddress |-> BuildNextAddress(BaseAddress, End, UseLargeEntry)]
    ELSE Only({BuildRest(first, End, State, UseLargeEntry, n - (n \div 2)) :
                 first \in {BuildLoop(BaseAddress, End, State, UseLargeEntry, n \div 2)}})

\* Header.EndEntry = (UINT16)Index, line 177
BuildEndEntry(Index) == ToUint16(Index)

\* As BuildIndexMax, with room for one entry less
BuildIndexMax_OneLess(InfoSize) == (InfoSize - SizeofHeader) \div SizeofEntry - 1

\* IndexMax, line 153
BuildIndexMax(InfoSize) == (InfoSize - SizeofHeader) \div SizeofEntry

\* The whole function: the buffer it leaves, the address it returns, and the
\* number of entries it wrote (the final value of Index).
BuildPageStateBuffer(BaseAddress, End, State, UseLargeEntry, InfoSize) ==
    LET IndexMax == BuildIndexMax(InfoSize)
    IN Only({LET Index == RunsLen(loop.Entries)
             IN [Info |-> [Header |-> [CurrentEntry |-> 0,
                                       EndEntry |-> IF Index = 0 THEN 0
                                                    ELSE BuildEndEntry(Index - 1)],
                           Entry  |-> RunsConcat(loop.Entries,
                                                 RunsFill(ZeroEntry, IndexMax - Index))],
                 NextAddress |-> IF Index = 0 THEN End ELSE loop.BaseAddress,
                 Index |-> Index] :
               loop \in {BuildLoop(BaseAddress, End, State, UseLargeEntry, IndexMax)}})

(***************************************************************************)
(* InternalSetPageState: which stage follows which (lines 319-334)         *)
(***************************************************************************)
\* As AfterBuild, with the hypervisor notified first whatever the state
AfterBuild_NotifyFirst(State) == "psc_enter"

\* After BuildPageStateBuffer: PvalidateRange first for Shared (line 319),
\* PageStateChange first otherwise (line 326).
AfterBuild(State) ==
    IF State = "SevSnpPageShared" THEN "pv_enter" ELSE "psc_enter"

\* PvalidateRange returns to line 326 (Shared) or to the loop head (Private)
AfterPvalidateRange(State) ==
    IF State = "SevSnpPageShared" THEN "psc_enter" ELSE "isp_loop"

\* PageStateChange returns to line 332: PvalidateRange for Private
AfterPageStateChange(State) ==
    IF State = "SevSnpPagePrivate" THEN "pv_enter" ELSE "isp_loop"

(***************************************************************************)
(* PvalidateRange                                                          *)
(***************************************************************************)
\* Entry[Index] of a buffer
EntryAt(info, Index) == RunsAt(info.Entry, Index)

\* As PvValidate, validating whatever the entry's operation
PvValidate_Always(e) == TRUE

\* Validate, line 95
PvValidate(e) == e.Operation = SNP_PAGE_STATE_PRIVATE

\* As PvRetrySmall, whatever the page size of the entry
PvRetrySmall_AnySize(ret, RmpPageSize) == ret = PVALIDATE_RET_SIZE_MISMATCH

\* The test of line 104: retry with the smaller page size?
PvRetrySmall(ret, RmpPageSize) ==
    (ret = PVALIDATE_RET_SIZE_MISMATCH) /\ (RmpPageSize = PvalidatePageSize2MB)

\* The page size and the address of a retry, lines 106 and 111
PvRetryPageSize == PvalidatePageSize4K
PvRetryNextAddress(addr) == addr + EFI_PAGE_SIZE

\* As PvRetryMore, one iteration short
PvRetryMore_OneShort(Index) == Index < PAGES_PER_LARGE_ENTRY - 1

\* The test of line 105: does the retry loop go on?
PvRetryMore(Index) == Index < PAGES_PER_LARGE_ENTRY

\* As PvFailed, taking only PVALIDATE_RET_FAIL_INPUT for a failure
PvFailed_OnlyFailInput(ret) == ret = PVALIDATE_RET_FAIL_INPUT

\* The tests of lines 107 and 118
PvFailed(ret) == ret # 0

\* What AsmPvalidate may return
PvalidateResults ==
    {PVALIDATE_RET_SUCCESS, PVALIDATE_RET_FAIL_INPUT, PVALIDATE_RET_SIZE_MISMATCH}

(***************************************************************************)
(* PageStateChange and PageStateChangeVmgExit                              *)
(***************************************************************************)
\* As PscCount, without the MIN
PscCount_NoMin(EndEntry, Index) == ToUint16(EndEntry - Index + 1)

\* Count, line 258, as a UINT16
PscCount(EndEntry, Index) ==
    ToUint16(Min(EndEntry - Index + 1, SNP_PAGE_STATE_MAX_ENTRY))

\* Index += Count, line 262, as a UINT16
PscNextIndex(Index, cnt) == ToUint16(Index + cnt)

\* As VmgExitFill, copying from the start of the batch whatever the slice
VmgExitFill_FromBatchStart(shared, info, Start, cnt) ==
    [Header |-> [CurrentEntry |-> 0, EndEntry |-> ToUint16(cnt - 1)],
     Entry  |-> RunsConcat(RunsSlice(info.Entry, 0, cnt),
                           RunsSlice(shared.Entry, cnt, SNP_PAGE_STATE_MAX_ENTRY - cnt))]

\* The shared buffer as lines 209-211 leave it: the header is reset and Count
\* entries are copied from Start; the entries behind them keep their content.
VmgExitFill(shared, info, Start, cnt) ==
    [Header |-> [CurrentEntry |-> 0, EndEntry |-> ToUint16(cnt - 1)],
     Entry  |-> RunsConcat(RunsSlice(info.Entry, Start, cnt),
                           RunsSlice(shared.Entry, cnt, SNP_PAGE_STATE_MAX_ENTRY - cnt))]

\* As VmgExitPending, leaving the loop when CurrentEntry reaches EndEntry
VmgExitPending_Strict(shared) == shared.Header.CurrentEntry < shared.Header.EndEntry

\* As VmgExitPending, leaving the loop as soon as the hypervisor got anywhere
VmgExitPending_UntilProgress(shared) == shared.Header.CurrentEntry = 0

\* The test of line 222
VmgExitPending(shared) == shared.Header.CurrentEntry <= shared.Header.EndEntry

\* What the guest writes to the GHCB before an exit, lines 223-224
VmgExitRequest(ghcb) ==
    [ghcb EXCEPT !.SwScratch = "SharedBuffer", !.SwScratchValid = TRUE]

\* As VmgExitFailed, looking at the return value only
VmgExitFailed_StatusOnly(status, info2) == status # 0

\* The test of line 232
VmgExitFailed(status, info2) == (status # 0) \/ (info2 # 0)

\* The GHCB MSR value of lines 54-57
TerminateMsr_ZeroFunction ==
    [Function      |-> 0,
     ReasonCodeSet |-> GHCB_TERMINATE_GHCB,
     ReasonCode    |-> GHCB_TERMINATE_GHCB_GENERAL]

TerminateMsr ==
    [Function      |-> GHCB_INFO_TERMINATE_REQUEST,
     ReasonCodeSet |-> GHCB_TERMINATE_GHCB,
     ReasonCode    |-> GHCB_TERMINATE_GHCB_GENERAL]

(***************************************************************************)
(* The calls of InternalSetPageState that are explored                     *)
(***************************************************************************)
States == {"SevSnpPageShared", "SevSnpPagePrivate"}

\* A scratch buffer with room for cap entries
BufferSize(cap) == SizeofHeader + cap * SizeofEntry

\* The arguments of a call, the interrupt flag at the call, and the hypervisor
\* that serves it: "any" answers an exit request in every way HvResponses lists,
\* "prompt" completes every round at its first exit request, "advancing" reports
\* a failure or completes at least one more entry at every exit request,
\* "stalling" reports no failure and never completes the last entry of a round.
Call(base, pages, state, large, cap, int, hv) ==
    [BaseAddress |-> base, NumPages |-> pages, State |-> state,
     UseLargeEntry |-> large, PscBufferSize |-> BufferSize(cap),
     InterruptsEnabled |-> int, Hypervisor |-> hv]

\* One page below a 2 MiB boundary, and on it
BaseAddresses == {SIZE_2MB - EFI_PAGE_SIZE, SIZE_2MB}

\* Short ranges: a few small entries, one or several batches
ShortCalls ==
    {Call(b, n, s, l, c, i, "any") : b \in BaseAddresses, n \in 1..MaxSmallPages, s \in States,
                              l \in BOOLEAN, c \in 1..MaxCapacity, i \in BOOLEAN}

\* Ranges that reach from the base address to the end of the 2 MiB region that
\* starts at SIZE_2MB, or one page further
LargeCalls ==
    {Call(b, ShiftRight(2 * SIZE_2MB - b, EFI_PAGE_SHIFT) + n, s, TRUE, c, TRUE, "any") :
        b \in BaseAddresses, n \in 0..1, s \in States, c \in {1, MaxCapacity}}
    \cup {Call(SIZE_2MB, PAGES_PER_LARGE_ENTRY, s, FALSE, 2 * PAGES_PER_LARGE_ENTRY, TRUE, "any") :
            s \in States}

\* Batches of more entries than one exchange carries
RoundCalls ==
    {Call(SIZE_2MB, n, s, FALSE, 2 * SNP_PAGE_STATE_MAX_ENTRY + 1, TRUE, "any") :
        n \in {SNP_PAGE_STATE_MAX_ENTRY + 1, 2 * SNP_PAGE_STATE_MAX_ENTRY,
               2 * SNP_PAGE_STATE_MAX_ENTRY + 1},
        s \in States}

\* Batches at the limit of the 16 bit header indices
WideCalls ==
    {Call(SIZE_2MB, UINT16_MOD, "SevSnpPagePrivate", FALSE, UINT16_MOD, TRUE, "prompt")}
    \cup {Call(SIZE_2MB, UINT16_MOD + 1, s, FALSE, UINT16_MOD + 1, TRUE, "prompt") :
            s \in States}

\* Calls served by a hypervisor that gets further at every exit request: a
\* batch of 65536 entries, and calls that take the program through every
\* operation
AdvancingCalls ==
    {Call(SIZE_2MB, UINT16_MOD, "SevSnpPagePrivate", FALSE, UINT16_MOD, TRUE, "prompt")}
    \cup {[c EXCEPT !.Hypervisor = "advancing"] :
            c \in {d \in ShortCalls \cup LargeCalls \cup RoundCalls :
                      /\ d.BaseAddress = SIZE_2MB
                      /\ d.InterruptsEnabled
                      /\ d.NumPages \in {MaxSmallPages, PAGES_PER_LARGE_ENTRY,
                                          SNP_PAGE_STATE_MAX_ENTRY + 1}
                      /\ d.PscBufferSize # BufferSize(MaxCapacity)}}

\* Short calls served by a hypervisor that never completes a round
StallingCalls == {[c EXCEPT !.Hypervisor = "stalling"] : c \in ShortCalls}

\* What the caller left in the scratch buffer: entries of an earlier use
StaleEntry ==
    [GuestFrameNumber |-> 1, PageSize |-> PvalidatePageSize2MB,
     Operation |-> SNP_PAGE_STATE_PRIVATE, CurrentPage |-> 1]

StaleInfo(IndexMax) ==
    [Header |-> [CurrentEntry |-> 1, EndEntry |-> 1],
     Entry |-> RunsFill(StaleEntry, IndexMax)]

NoCall == [op |-> "none", size |-> 0, validate |-> FALSE, addr |-> 0, sub |-> FALSE]

InitFor(calls) ==
    /\ arg \in calls
    /\ pc = "isp_loop"
    /\ NextAddress = arg.BaseAddress
    /\ EndAddress = arg.BaseAddress + EFI_PAGES_TO_SIZE(arg.NumPages)
    /\ Info = StaleInfo(BuildIndexMax(arg.PscBufferSize))
    /\ StartIndex = 0
    /\ EndIndex = 0
    /\ PvIndex = 0
    /\ Address = 0
    /\ Ret = 0
    /\ PscIndex = 0
    /\ Count = 0
    /\ Ghcb = [SharedBuffer |-> ZeroInfo(SNP_PAGE_STATE_MAX_ENTRY),
               SwScratch |-> "none", SwScratchValid |-> FALSE,
               SwExitInfo2 |-> 0, InUse |-> FALSE]
    /\ Status = 0
    /\ InterruptState = FALSE
    /\ Interrupts = arg.InterruptsEnabled
    /\ Msr = "Ghcb"
    /\ last = NoCall
    /\ h = [batches |-> 0, batchBase |-> arg.BaseAddress, built |-> 0,
            emitEnd |-> arg.BaseAddress, emitOK |-> TRUE,
            valid |-> 0, valEnd |-> arg.BaseAddress, valOK |-> TRUE,
            pscEnd |-> arg.BaseAddress, pscOK |-> TRUE,
            pvIssued |-> FALSE, exits |-> FALSE,
            rounds |-> 0, roundsDrained |-> 0, drained |-> 0, partials |-> 0,
            sub |-> 0, termCalls |-> 0,
            msrWrites |-> 0, termExits |-> 0, afterTerm |-> FALSE,
            opened |-> 0, closed |-> 0]

Init == InitFor(ShortCalls \cup LargeCalls \cup RoundCalls)

\* The wide calls, and calls that take the program through every operation
InitWide ==
    InitFor(WideCalls
            \cup {c \in ShortCalls : c.NumPages = MaxSmallPages /\ c.PscBufferSize = BufferSize(1)
                                      /\ c.BaseAddress = SIZE_2MB /\ c.InterruptsEnabled}
            \cup {c \in LargeCalls : c.NumPages = PAGES_PER_LARGE_ENTRY
                                      /\ c.PscBufferSize = BufferSize(1)})

(***************************************************************************)
(* History                                                                 *)
(***************************************************************************)
\* A pipeline operation (build, validate, exchange) takes place
Pipeline(hh) == [hh EXCEPT !.afterTerm = @ \/ hh.termCalls > 0]

\* SnpPageStateFailureTerminate is called
Terminate(hh) == [hh EXCEPT !.termCalls = Min(@ + 1, 2)]

\* Each of the first n entries of info starts where the one before it ends, the
\* first one at from
Contiguous(info, n, from) ==
    \A i \in 0..(n - 1) :
        EntryAddress(EntryAt(info, i))
            = IF i = 0 THEN from ELSE EntryEnd(EntryAt(info, i - 1))

\* A batch was built from base: b is what BuildPageStateBuffer gave
Built(hh, base, b) ==
    [Pipeline(hh) EXCEPT
          !.batches = @ + 1, !.batchBase = base, !.built = b.Index,
          !.emitOK = @ /\ b.Index > 0 /\ Contiguous(b.Info, b.Index, hh.emitEnd),
          !.emitEnd = IF b.Index > 0 THEN EntryEnd(EntryAt(b.Info, b.Index - 1)) ELSE @,
          !.valid = 0, !.pvIssued = FALSE, !.exits = FALSE, !.rounds = 0,
          !.roundsDrained = 0, !.drained = 0, !.partials = 0, !.sub = 0]

\* AsmPvalidate succeeded on bytes bytes at addr
Validated(hh, addr, bytes) ==
    [hh EXCEPT !.valOK = @ /\ addr = hh.valEnd,
               !.valEnd = IF addr = hh.valEnd THEN addr + bytes ELSE @]

\* The first and the last round a batch of the header's size needs, plus one
RoundsNeeded(header) ==
    (header.EndEntry - header.CurrentEntry + SNP_PAGE_STATE_MAX_ENTRY)
        \div SNP_PAGE_STATE_MAX_ENTRY

\* A round that carried the first cnt entries of shared has drained
Drained(hh, shared, cnt, header) ==
    [hh EXCEPT
       !.roundsDrained = Min(@ + 1, RoundsNeeded(header) + 1),
       !.drained = Min(@ + cnt, header.EndEntry + 1 + SNP_PAGE_STATE_MAX_ENTRY),
       !.closed = Min(@ + 1, RoundsNeeded(header) + 1),
       !.pscOK = @ /\ cnt > 0 /\ EntryAddress(EntryAt(shared, 0)) = hh.pscEnd,
       !.pscEnd = IF cnt > 0 /\ EntryAddress(EntryAt(shared, 0)) = hh.pscEnd
                  THEN EntryEnd(EntryAt(shared, cnt - 1)) ELSE @]

pvVars == <<StartIndex, EndIndex, PvIndex, Address, Ret>>
pscVars == <<PscIndex, Count, Ghcb, Status, InterruptState, Interrupts>>
ispVars == <<NextAddress, EndAddress, Info>>

(***************************************************************************)
(* InternalSetPageState, lines 302-335                                     *)
(***************************************************************************)
InternalSetPageState_Build ==
    /\ pc = "isp_loop"
    /\ NextAddress < EndAddress
    /\ \E b \in {BuildPageStateBuffer(NextAddress, EndAddress, arg.State,
                                        arg.UseLargeEntry, arg.PscBufferSize)} :
          /\ Info' = b.Info
          /\ NextAddress' = b.NextAddress
          /\ h' = Built(h, NextAddress, b)
    /\ last' = [NoCall EXCEPT !.op = "SetMem"]
    /\ pc' = AfterBuild(arg.State)
    /\ UNCHANGED <<arg, EndAddress, pvVars, pscVars, Msr>>

InternalSetPageState_Return ==
    /\ pc = "isp_loop"
    /\ ~(NextAddress < EndAddress)
    /\ pc' = "returned"
    /\ UNCHANGED <<arg, ispVars, pvVars, pscVars, Msr, last, h>>

(***************************************************************************)
(* PvalidateRange, lines 86-130                                            *)
(***************************************************************************)
PvalidateRange_Enter ==
    /\ pc = "pv_enter"
    /\ StartIndex' = Info.Header.CurrentEntry
    /\ EndIndex' = Info.Header.EndEntry
    /\ pc' = "pv_loop"
    /\ UNCHANGED <<arg, ispVars, PvIndex, Address, Ret, pscVars, Msr, last, h>>

\* Lines 89-97 and what follows the first AsmPvalidate of an entry
PvalidateRange_Entry ==
    /\ pc = "pv_loop"
    /\ StartIndex <= EndIndex
    /\ \E r \in PvalidateResults :
         LET e    == EntryAt(Info, StartIndex)
             addr == EntryAddress(e)
             hh   == [Pipeline(h) EXCEPT !.pvIssued = TRUE, !.sub = 0]
         IN /\ Address' = addr
            /\ Ret' = r
            /\ last' = [op |-> "AsmPvalidate", size |-> e.PageSize,
                        validate |-> PvValidate(e), addr |-> addr, sub |-> FALSE]
            /\ IF PvRetrySmall(r, e.PageSize)
               THEN /\ pc' = "pv_demote"
                    /\ PvIndex' = 0
                    /\ StartIndex' = StartIndex
                    /\ h' = hh
               ELSE IF PvFailed(r)
               THEN /\ pc' = "term_msr"
                    /\ h' = Terminate(hh)
                    /\ UNCHANGED <<PvIndex, StartIndex>>
               ELSE /\ pc' = "pv_loop"
                    /\ StartIndex' = StartIndex + 1
                    /\ h' = [Validated(hh, addr, EntryBytes(e)) EXCEPT !.valid = @ + 1]
                    /\ UNCHANGED PvIndex
    /\ UNCHANGED <<arg, ispVars, EndIndex, pscVars, Msr>>

\* One iteration of the loop of lines 105-112 and, when it is the last one,
\* lines 118 and 89
PvalidateRange_Retry ==
    /\ pc = "pv_demote"
    /\ \E r \in PvalidateResults :
         LET e  == EntryAt(Info, StartIndex)
             hh == [Pipeline(h) EXCEPT !.sub = @ + 1]
         IN /\ Ret' = r
            /\ last' = [op |-> "AsmPvalidate", size |-> PvRetryPageSize,
                        validate |-> PvValidate(e), addr |-> Address, sub |-> TRUE]
            /\ IF PvFailed(r)
               THEN /\ pc' = "term_msr"
                    /\ h' = Terminate(hh)
                    /\ UNCHANGED <<PvIndex, StartIndex, Address>>
               ELSE /\ Address' = PvRetryNextAddress(Address)
                    /\ PvIndex' = PvIndex + 1
                    /\ IF PvRetryMore(PvIndex + 1)
                       THEN /\ pc' = "pv_demote"
                            /\ StartIndex' = StartIndex
                            /\ h' = Validated(hh, Address, EFI_PAGE_SIZE)
                       ELSE /\ pc' = "pv_loop"
                            /\ StartIndex' = StartIndex + 1
                            /\ h' = [Validated(hh, Address, EFI_PAGE_SIZE)
                                       EXCEPT !.valid = @ + 1]
    /\ UNCHANGED <<arg, ispVars, EndIndex, pscVars, Msr>>

PvalidateRange_Return ==
    /\ pc = "pv_loop"
    /\ ~(StartIndex <= EndIndex)
    /\ pc' = AfterPvalidateRange(arg.State)
    /\ UNCHANGED <<arg, ispVars, pvVars, pscVars, Msr, last, h>>

(***************************************************************************)
(* PageStateChange, lines 252-263                                          *)
(***************************************************************************)
PageStateChange_Enter ==
    /\ pc = "psc_enter"
    /\ PscIndex' = Info.Header.CurrentEntry
    /\ pc' = "psc_loop"
    /\ last' = [NoCall EXCEPT !.op = "AsmReadMsr64"]
    /\ UNCHANGED <<arg, ispVars, pvVars, Count, Ghcb, Status, InterruptState,
                   Interrupts, Msr, h>>

PageStateChange_Return ==
    /\ pc = "psc_loop"
    /\ ~(PscIndex <= Info.Header.EndEntry)
    /\ pc' = AfterPageStateChange(arg.State)
    /\ UNCHANGED <<arg, ispVars, pvVars, pscVars, Msr, last, h>>

(***************************************************************************)
(* PageStateChangeVmgExit, lines 198-237                                   *)
(***************************************************************************)
\* Line 258, the call of line 260 and lines 198-211: a round is opened
PageStateChangeVmgExit_Init ==
    /\ pc = "psc_loop"
    /\ PscIndex <= Info.Header.EndEntry
    /\ LET cnt == PscCount(Info.Header.EndEntry, PscIndex)
       IN /\ Count' = cnt
          /\ IF cnt > SNP_PAGE_STATE_MAX_ENTRY
             THEN /\ pc' = "term_msr"
                  /\ h' = Terminate(h)
                  /\ UNCHANGED <<Ghcb, InterruptState, Interrupts, last>>
             ELSE /\ pc' = "vmg_loop"
                  /\ InterruptState' = Interrupts
                  /\ Interrupts' = FALSE
                  /\ Ghcb' = [Ghcb EXCEPT
                                !.InUse = TRUE,
                                !.SwScratch = "none",
                                !.SwScratchValid = FALSE,
                                !.SwExitInfo2 = 0,
                                !.SharedBuffer = VmgExitFill(@, Info, PscIndex, cnt)]
                  /\ last' = [NoCall EXCEPT !.op = "CcExitVmgInit"]
                  /\ h' = [Pipeline(h) EXCEPT
                             !.rounds = Min(@ + 1, RoundsNeeded(Info.Header) + 1),
                             !.opened = Min(@ + 1, RoundsNeeded(Info.Header) + 1)]
    /\ UNCHANGED <<arg, ispVars, pvVars, PscIndex, Status, Msr>>

\* Lines 222-226: the exit request is issued
PageStateChangeVmgExit_Request ==
    /\ pc = "vmg_loop"
    /\ VmgExitPending(Ghcb.SharedBuffer)
    /\ Ghcb' = VmgExitRequest(Ghcb)
    /\ last' = [NoCall EXCEPT !.op = "CcExitVmgExit"]
    /\ h' = [Pipeline(h) EXCEPT !.exits = TRUE]
    /\ pc' = "vmg_wait"
    /\ UNCHANGED <<arg, ispVars, pvVars, PscIndex, Count, Status, InterruptState,
                   Interrupts, Msr>>

\* What the hypervisor may answer to an exit request: the transport status,
\* SwExitInfo2, and the CurrentEntry it leaves in the shared header.  It stalls,
\* completes the round, or (MaxPartial times a batch) completes one more entry.
HvResponses(shared, partials, hv) ==
    LET cur == shared.Header.CurrentEntry
        end == shared.Header.EndEntry
    IN IF hv = "prompt"
       THEN {[Status |-> 0, SwExitInfo2 |-> 0, CurrentEntry |-> end + 1, partial |-> FALSE]}
       ELSE
       LET any ==
             {[Status |-> 0, SwExitInfo2 |-> 0, CurrentEntry |-> c, partial |-> FALSE] :
                  c \in {cur, end + 1}}
             \cup {[Status |-> 0, SwExitInfo2 |-> 0, CurrentEntry |-> c, partial |-> TRUE] :
                  c \in IF partials < MaxPartial /\ cur + 1 <= end THEN {cur + 1} ELSE {}}
             \cup {[Status |-> st, SwExitInfo2 |-> x, CurrentEntry |-> c, partial |-> FALSE] :
                  st \in {0, 1}, x \in {0, 1}, c \in {cur, end + 1}}
       IN IF hv = "advancing"
          THEN {r \in any : r.Status # 0 \/ r.SwExitInfo2 # 0 \/ r.CurrentEntry > cur}
          ELSE IF hv = "stalling"
          THEN {r \in any : r.Status = 0 /\ r.SwExitInfo2 = 0 /\ r.CurrentEntry <= end}
          ELSE any

\* The shared buffer after the hypervisor's answer
HvWrite(shared, resp) ==
    [shared EXCEPT
       !.Header.CurrentEntry = resp.CurrentEntry,
       !.Entry = IF resp.partial
                 THEN RunsSet(@, resp.CurrentEntry,
                              [EntryAt(shared, resp.CurrentEntry) EXCEPT !.CurrentPage = 1])
                 ELSE @]

\* As VmgExitResume, closing the session (CcExitVmgDone) when the exit failed
VmgExitResume_CloseOnFailure(ghcb, resp) ==
    [ghcb EXCEPT !.SwExitInfo2 = resp.SwExitInfo2,
                 !.SharedBuffer = HvWrite(@, resp),
                 !.InUse = @ /\ ~VmgExitFailed(resp.Status, resp.SwExitInfo2)]

\* The GHCB when CcExitVmgExit has returned and the test of line 232 is made:
\* the hypervisor's answer is in it, and nothing else has changed
VmgExitResume(ghcb, resp) ==
    [ghcb EXCEPT !.SwExitInfo2 = resp.SwExitInfo2,
                 !.SharedBuffer = HvWrite(@, resp)]

\* CcExitVmgExit returns, lines 226-234
PageStateChangeVmgExit_Resume ==
    /\ pc = "vmg_wait"
    /\ \E resp \in HvResponses(Ghcb.SharedBuffer, h.partials, arg.Hypervisor) :
         /\ Status' = resp.Status
         /\ Ghcb' = VmgExitResume(Ghcb, resp)
         /\ IF VmgExitFailed(resp.Status, resp.SwExitInfo2)
            THEN /\ pc' = "term_msr"
                 /\ h' = Terminate(h)
            ELSE /\ pc' = "vmg_loop"
                 /\ h' = [h EXCEPT !.partials = IF resp.partial THEN @ + 1 ELSE @]
    /\ UNCHANGED <<arg, ispVars, pvVars, PscIndex, Count, InterruptState, Interrupts,
                   Msr, last>>

\* As VmgExitClose, without the call of CcExitVmgDone
VmgExitClose_LeftOpen(ghcb) == ghcb

\* CcExitVmgDone, line 237: the session is closed
VmgExitClose(ghcb) == [ghcb EXCEPT !.InUse = FALSE]

\* Line 237 and line 262: the round is closed
PageStateChangeVmgExit_Done ==
    /\ pc = "vmg_loop"
    /\ ~VmgExitPending(Ghcb.SharedBuffer)
    /\ Ghcb' = VmgExitClose(Ghcb)
    /\ Interrupts' = InterruptState
    /\ PscIndex' = PscNextIndex(PscIndex, Count)
    /\ last' = [NoCall EXCEPT !.op = "CcExitVmgDone"]
    /\ h' = Drained(Pipeline(h), Ghcb.SharedBuffer, Count, Info.Header)
    /\ pc' = "psc_loop"
    /\ UNCHANGED <<arg, ispVars, pvVars, Count, Status, InterruptState, Msr>>

(***************************************************************************)
(* SnpPageStateFailureTerminate, lines 54-63                               *)
(***************************************************************************)
Terminate_WriteMsr ==
    /\ pc = "term_msr"
    /\ Msr' = TerminateMsr
    /\ last' = [NoCall EXCEPT !.op = "AsmWriteMsr64"]
    /\ h' = [h EXCEPT !.msrWrites = Min(@ + 1, 2)]
    /\ pc' = "term_exit"
    /\ UNCHANGED <<arg, ispVars, pvVars, pscVars>>

\* AsmVmgExit: the hypervisor ends the guest, or resumes it all the same
Terminate_VmgExit ==
    /\ pc = "term_exit"
    /\ last' = [NoCall EXCEPT !.op = "AsmVmgExit"]
    /\ h' = [h EXCEPT !.termExits = Min(@ + 1, 2)]
    /\ pc' \in {"terminated", "term_resumed"}
    /\ UNCHANGED <<arg, ispVars, pvVars, pscVars, Msr>>

\* ASSERT (FALSE) and the call of CpuDeadLoop
Terminate_Resumed ==
    /\ pc = "term_resumed"
    /\ last' = [NoCall EXCEPT !.op = "CpuDeadLoop"]
    /\ pc' = "deadloop"
    /\ UNCHANGED <<arg, ispVars, pvVars, pscVars, Msr, h>>

\* CpuDeadLoop spins
CpuDeadLoop ==
    /\ pc = "deadloop"
    /\ UNCHANGED vars

Next ==
    \/ InternalSetPageState_Build
    \/ InternalSetPageState_Return
    \/ PvalidateRange_Enter
    \/ PvalidateRange_Entry
    \/ PvalidateRange_Retry
    \/ PvalidateRange_Return
    \/ PageStateChange_Enter
    \/ PageStateChange_Return
    \/ PageStateChangeVmgExit_Init
    \/ PageStateChangeVmgExit_Request
    \/ PageStateChangeVmgExit_Resume
    \/ PageStateChangeVmgExit_Done
    \/ Terminate_WriteMsr
    \/ Terminate_VmgExit
    \/ Terminate_Resumed
    \/ CpuDeadLoop

Spec == Init /\ [][Next]_vars

SpecWide == InitWide /\ [][Next]_vars

\* The program runs on as long as it has a step to take
InitAdvancing == InitFor(AdvancingCalls)

SpecAdvancing == InitAdvancing /\ [][Next]_vars /\ WF_vars(Next)

\* The stalling calls, and calls that take the program through every operation
InitStalling ==
    InitFor(StallingCalls
            \cup {c \in ShortCalls : c.NumPages = MaxSmallPages /\ c.PscBufferSize = BufferSize(1)
                                      /\ c.BaseAddress = SIZE_2MB /\ c.InterruptsEnabled}
            \cup {c \in LargeCalls : c.NumPages = PAGES_PER_LARGE_ENTRY
                                      /\ c.PscBufferSize = BufferSize(1)})

SpecStalling == InitStalling /\ [][Next]_vars /\ WF_vars(Next)

TermPcs == {"term_msr", "term_exit", "term_resumed", "deadloop", "terminated"}

PvPcs == {"pv_enter", "pv_loop", "pv_demote"}
PscPcs == {"psc_enter", "psc_loop", "vmg_loop", "vmg_wait"}

(***************************************************************************)
(* C1: in every batch, a Shared transition has issued every invalidate     *)
(* operation of the batch, retries included, and seen it succeed before    *)
(* the first exit request of the batch is issued; a Private transition has *)
(* drained every exchange round of the batch and closed it before the      *)
(* first validate operation of the batch is issued.                        *)
(***************************************************************************)
C1_InvalidateThenNotify_NotifyThenValidate ==
    /\ (arg.State = "SevSnpPageShared" /\ h.exits) =>
          /\ h.valid = h.built
          /\ h.valid = Info.Header.EndEntry + 1
          /\ pc \notin PvPcs
          /\ last.op # "AsmPvalidate"
    /\ (arg.State = "SevSnpPagePrivate" /\ h.pvIssued) =>
          /\ h.drained = h.built
          /\ h.drained = Info.Header.EndEntry + 1
          /\ h.rounds = h.roundsDrained
          /\ ~Ghcb.InUse
          /\ pc \notin PscPcs
          /\ last.op \notin {"CcExitVmgInit", "CcExitVmgExit"}

\* A Shared transition is exchanging its second batch, whose 2 MiB entry was
\* invalidated page by page
C1_Witness ==
    /\ arg.State = "SevSnpPageShared"
    /\ h.batches = 2
    /\ h.sub = PAGES_PER_LARGE_ENTRY
    /\ h.exits
    /\ pc = "vmg_wait"

(***************************************************************************)
(* C2: when InternalSetPageState returns, every page of the range was      *)
(* covered exactly once, in address order, by a successful validate or     *)
(* invalidate operation and by an entry of a round that drained, and the   *)
(* failure terminator was never called; once it was called, control stays  *)
(* in it.                                                                  *)
(***************************************************************************)
C2_ReturnMeansWholeRangeDone ==
    /\ pc = "returned" =>
          /\ h.valOK /\ h.valEnd = EndAddress
          /\ h.pscOK /\ h.pscEnd = EndAddress
          /\ h.termCalls = 0
    /\ h.termCalls > 0 => pc \in TermPcs

\* The entries of rs one by one, Entry[0] first
RECURSIVE RunsExpand(_)
RunsExpand(rs) ==
    IF rs = <<>> THEN <<>>
    ELSE LET r == Head(rs)
         IN [j \in 1..r.count |->
                [r.first EXCEPT !.GuestFrameNumber = @ + (j - 1) * r.step]]
               \o RunsExpand(Tail(rs))

Range(f) == {f[x] : x \in DOMAIN f}

\* The entries the last call of BuildPageStateBuffer wrote
Written == RunsExpand(RunsSlice(Info.Entry, 0, h.built))

(***************************************************************************)
(* C3: the entries BuildPageStateBuffer emits over the batches of a call   *)
(* tile [BaseAddress, EndAddress): the first entry of the first batch      *)
(* starts at BaseAddress, every entry starts where the entry before it     *)
(* ends, also from one batch to the next, addresses increase strictly, no  *)
(* entry reaches beyond EndAddress, and at the return the last entry ends  *)
(* at EndAddress.                                                          *)
(***************************************************************************)
C3_EntriesTileTheRange ==
    /\ h.emitOK
    /\ h.emitEnd = NextAddress
    /\ h.emitEnd <= EndAddress
    /\ h.batches = 0 => h.emitEnd = arg.BaseAddress
    /\ h.batches > 0 =>
          LET w == Written
          IN /\ h.built >= 1
             /\ EntryAddress(w[1]) = h.batchBase
             /\ \A i \in 1..(h.built - 1) :
                   LET next == EntryAddress(w[i + 1])
                   IN /\ EntryEnd(w[i]) = next
                      /\ EntryAddress(w[i]) < next
             /\ EntryEnd(w[h.built]) = NextAddress
    /\ pc = "returned" => h.emitEnd = EndAddress

\* A call has returned after three batches, one of them a 2 MiB entry
C3_Witness ==
    /\ pc = "returned"
    /\ h.batches = 3
    /\ arg.BaseAddress = SIZE_2MB - EFI_PAGE_SIZE
    /\ arg.NumPages = PAGES_PER_LARGE_ENTRY + 2
    /\ arg.UseLargeEntry

(***************************************************************************)
(* C4: an entry of the batch is a 2 MiB entry exactly when UseLargeEntry   *)
(* is set, its address is 2 MiB aligned and at least 2 MiB remain up to    *)
(* EndAddress, and is a 4 KiB entry otherwise; its operation is the        *)
(* requested state and its CurrentPage is zero.                            *)
(***************************************************************************)
C4_GranuleSelection ==
    LET w == Written
    IN \A i \in 1..h.built :
        LET e == w[i]
            a == e.GuestFrameNumber * EFI_PAGE_SIZE
        IN /\ e.PageSize \in {PvalidatePageSize4K, PvalidatePageSize2MB}
           /\ e.PageSize = PvalidatePageSize2MB <=>
                 (arg.UseLargeEntry /\ a % SIZE_2MB = 0 /\ EndAddress - a >= SIZE_2MB)
           /\ e.Operation = IF arg.State = "SevSnpPageShared"
                            THEN SNP_PAGE_STATE_SHARED ELSE SNP_PAGE_STATE_PRIVATE
           /\ e.CurrentPage = 0

\* One batch holds a 4 KiB entry, a 2 MiB entry and a 4 KiB entry behind it,
\* which starts 2 MiB aligned with less than 2 MiB left
C4_Witness ==
    /\ h.built = 3
    /\ Written[1].PageSize = PvalidatePageSize4K
    /\ Written[2].PageSize = PvalidatePageSize2MB
    /\ Written[3].PageSize = PvalidatePageSize4K
    /\ EntryAddress(Written[3]) % SIZE_2MB = 0

(***************************************************************************)
(* C5: after a size mismatch on a 2 MiB entry PvalidateRange issues 4 KiB  *)
(* operations with the entry's validate flag at the entry's address, then  *)
(* 4 KiB further each time; when all succeed there were exactly 512, the   *)
(* last one on the last page of the entry's 2 MiB, and the loop goes on    *)
(* with the next entry; when one fails it was the last one of the entry    *)
(* and the failure terminator is entered.                                  *)
(***************************************************************************)
C5_DemotionTo512SmallOperations ==
    /\ pc = "pv_demote" =>
          LET e == EntryAt(Info, StartIndex)
              start == e.GuestFrameNumber * EFI_PAGE_SIZE
          IN /\ e.PageSize = PvalidatePageSize2MB
             /\ PvIndex < 512
             /\ h.sub = PvIndex
             /\ Address = start + PvIndex * EFI_PAGE_SIZE
             /\ last.op = "AsmPvalidate"
             /\ last.validate = (e.Operation = SNP_PAGE_STATE_PRIVATE)
             /\ PvIndex = 0 =>
                   /\ ~last.sub
                   /\ last.size = PvalidatePageSize2MB
                   /\ last.addr = start
                   /\ Ret = PVALIDATE_RET_SIZE_MISMATCH
             /\ PvIndex > 0 =>
                   /\ last.sub
                   /\ last.size = PvalidatePageSize4K
                   /\ last.addr = start + (PvIndex - 1) * EFI_PAGE_SIZE
                   /\ Ret = PVALIDATE_RET_SUCCESS
    /\ (last.sub /\ Ret = PVALIDATE_RET_SUCCESS /\ pc = "pv_loop") =>
          LET e == EntryAt(Info, StartIndex - 1)
              start == e.GuestFrameNumber * EFI_PAGE_SIZE
          IN /\ h.sub = 512
             /\ e.PageSize = PvalidatePageSize2MB
             /\ last.size = PvalidatePageSize4K
             /\ last.addr = start + 511 * EFI_PAGE_SIZE
             /\ Address = start + SIZE_2MB
             /\ h.valid = StartIndex - Info.Header.CurrentEntry
    /\ (last.sub /\ Ret = PVALIDATE_RET_SUCCESS) => pc \notin TermPcs
    /\ (last.sub /\ Ret # PVALIDATE_RET_SUCCESS) =>
          /\ pc = "term_msr"
          /\ h.sub = PvIndex + 1
          /\ last.addr = Address

\* All 512 operations of a demoted entry have succeeded
C5_Witness ==
    /\ pc = "pv_loop"
    /\ last.sub
    /\ Ret = PVALIDATE_RET_SUCCESS
    /\ h.sub = 512
    /\ StartIndex = 2

(***************************************************************************)
(* C6: a round of PageStateChangeVmgExit is left for its caller only when  *)
(* the shared header reports CurrentEntry > EndEntry; while the header     *)
(* reports CurrentEntry <= EndEntry after a successful exit, the next step *)
(* of the guest is another exit request in the same session; and no step   *)
(* the guest takes between the opening and the closing of a round changes  *)
(* the header or the entries of the shared buffer.                         *)
(***************************************************************************)
C6_RoundDrainsBeforeReturn ==
    [][LET hdr == Ghcb.SharedBuffer.Header
       IN /\ pc = "vmg_loop" => Ghcb'.SharedBuffer = Ghcb.SharedBuffer
          /\ (pc = "vmg_loop" /\ hdr.CurrentEntry <= hdr.EndEntry) =>
                /\ pc' = "vmg_wait"
                /\ last'.op = "CcExitVmgExit"
                /\ Ghcb'.InUse
          /\ (pc \in {"vmg_loop", "vmg_wait"}
                /\ pc' \notin ({"vmg_loop", "vmg_wait"} \cup TermPcs)) =>
                /\ hdr.CurrentEntry > hdr.EndEntry
                /\ last'.op = "CcExitVmgDone"
          /\ last'.op = "CcExitVmgDone" =>
                Ghcb'.SharedBuffer.Header.CurrentEntry > Ghcb'.SharedBuffer.Header.EndEntry
      ]_vars

\* An exit request is issued again after MaxPartial partial resumptions
C6_Witness ==
    /\ pc = "vmg_wait"
    /\ h.partials = MaxPartial
    /\ Ghcb.SharedBuffer.Header.CurrentEntry = MaxPartial
    /\ Ghcb.SharedBuffer.Header.EndEntry > MaxPartial

\* The last call of AsmPvalidate returned a failure that is not recovered: any
\* non-zero code, but for a size mismatch on the first attempt at a 2 MiB entry
LastPvalidateFatal ==
    /\ last.op = "AsmPvalidate"
    /\ Ret # PVALIDATE_RET_SUCCESS
    /\ ~(Ret = PVALIDATE_RET_SIZE_MISMATCH /\ last.size = PvalidatePageSize2MB /\ ~last.sub)

(***************************************************************************)
(* C7: when a call of AsmPvalidate, a first attempt or a retry, returns a  *)
(* failure that is not recovered, the failure terminator is called, it is  *)
(* called once, and from then on control stays in the terminator and no    *)
(* build, validate, session open, exit request or session close takes      *)
(* place.                                                                  *)
(***************************************************************************)
C7_FatalValidationTerminatesOnce ==
    /\ LastPvalidateFatal => (pc = "term_msr" /\ h.termCalls = 1)
    /\ h.termCalls <= 1
    /\ h.termCalls = 1 =>
          /\ pc \in TermPcs
          /\ ~h.afterTerm
          /\ last.op \in {"AsmPvalidate", "CcExitVmgExit", "AsmWriteMsr64",
                          "AsmVmgExit", "CpuDeadLoop"}
    /\ (last.op = "AsmPvalidate" /\ ~LastPvalidateFatal) => h.termCalls = 0

\* A Private transition is terminated by a failing retry on an entry of its
\* second batch
C7_Witness ==
    /\ arg.State = "SevSnpPagePrivate"
    /\ h.batches = 2
    /\ LastPvalidateFatal
    /\ last.sub
    /\ PvIndex > 0
    /\ pc = "term_msr"

(***************************************************************************)
(* C8: when CcExitVmgExit returns a non-zero status or leaves SwExitInfo2  *)
(* non-zero, the failure terminator is called at once, whatever the shared *)
(* header reports: the session stays as it is, no exit request, round,     *)
(* batch or other pipeline operation follows, and in a Private transition  *)
(* no validate operation was or is issued for the batch.                   *)
(***************************************************************************)
C8_ExitFailureTerminates ==
    (Status # 0 \/ Ghcb.SwExitInfo2 # 0) =>
        /\ pc \in TermPcs
        /\ h.termCalls = 1
        /\ ~h.afterTerm
        /\ last.op \in {"CcExitVmgExit", "AsmWriteMsr64", "AsmVmgExit", "CpuDeadLoop"}
        /\ h.rounds = h.roundsDrained + 1
        /\ arg.State = "SevSnpPagePrivate" => ~h.pvIssued

\* In the second round of a Private batch the hypervisor completes the round
\* and reports a failure in SwExitInfo2 alone
C8_Witness ==
    /\ arg.State = "SevSnpPagePrivate"
    /\ h.rounds = 2
    /\ Status = 0
    /\ Ghcb.SwExitInfo2 # 0
    /\ Ghcb.SharedBuffer.Header.CurrentEntry > Ghcb.SharedBuffer.Header.EndEntry
    /\ pc = "term_msr"

(***************************************************************************)
(* C9: for a batch of n entries, the header's CurrentEntry..EndEntry,      *)
(* PageStateChange opens exactly ceil(n / SNP_PAGE_STATE_MAX_ENTRY)        *)
(* rounds; round k (from 0) carries the entries from index k * maximum on, *)
(* min(maximum, what remains) of them, so the rounds carry every entry of  *)
(* the batch once and in order; and a round is opened only when every      *)
(* round before it has drained.                                            *)
(***************************************************************************)
C9_RoundsSliceTheBatch ==
    LET n    == Info.Header.EndEntry - Info.Header.CurrentEntry + 1
        M    == SNP_PAGE_STATE_MAX_ENTRY
        need == (n + M - 1) \div M
        k    == h.rounds - 1
    IN /\ h.rounds <= need
       /\ h.rounds - h.roundsDrained \in {0, 1}
       /\ pc \in {"vmg_loop", "vmg_wait"} =>
             /\ h.roundsDrained = k
             /\ h.drained = k * M
             /\ PscIndex = Info.Header.CurrentEntry + k * M
             /\ Count = Min(M, n - k * M)
             /\ Ghcb.SharedBuffer.Header.EndEntry = Count - 1
             /\ \A i \in 1..Count :
                   LET s == EntryAt(Ghcb.SharedBuffer, i - 1)
                       e == EntryAt(Info, PscIndex + i - 1)
                   IN /\ s.GuestFrameNumber = e.GuestFrameNumber
                      /\ s.PageSize = e.PageSize
                      /\ s.Operation = e.Operation
       /\ (last.op = "CcExitVmgDone" /\ pc # "psc_loop") =>
             /\ h.rounds = need
             /\ h.drained = n

(***************************************************************************)
(* C10: SnpPageStateFailureTerminate does not return to its caller.  It    *)
(* writes the termination payload (function terminate-request, reason set  *)
(* GHCB, reason code general) to the GHCB MSR once and then issues the     *)
(* exit instruction once; a guest that the hypervisor resumes after that   *)
(* exit spins in CpuDeadLoop for ever; and no build, validate or exchange  *)
(* operation takes place once the terminator has been entered.             *)
(***************************************************************************)
C10_InTerminator ==
    /\ h.termCalls > 0 <=> pc \in TermPcs
    /\ h.termCalls <= 1
    /\ ~h.afterTerm
    /\ h.msrWrites = (IF pc \in TermPcs \ {"term_msr"} THEN 1 ELSE 0)
    /\ h.termExits = (IF pc \in {"term_resumed", "deadloop", "terminated"} THEN 1 ELSE 0)
    /\ pc \in TermPcs \ {"term_msr"} =>
          /\ Msr.Function = 256
          /\ Msr.ReasonCodeSet = 0
          /\ Msr.ReasonCode = 0
    /\ pc \notin TermPcs => Msr = "Ghcb"

C10_TerminatorStep ==
    /\ pc \in TermPcs => pc' \in TermPcs
    /\ pc = "term_msr" => pc' = "term_exit" /\ last'.op = "AsmWriteMsr64"
    /\ pc = "term_exit" => pc' \in {"terminated", "term_resumed"} /\ last'.op = "AsmVmgExit"
    /\ pc = "term_resumed" => pc' = "deadloop"
    /\ pc \in TermPcs => UNCHANGED <<arg, ispVars, pvVars, pscVars>>

C10_TerminateNeverReturns == []C10_InTerminator /\ [][C10_TerminatorStep]_vars

C10_Witness ==
    /\ pc = "deadloop"
    /\ h.termCalls = 1
    /\ h.msrWrites = 1
    /\ h.termExits = 1
    /\ Msr = [Function |-> 256, ReasonCodeSet |-> 0, ReasonCode |-> 0]

(***************************************************************************)
(* C11, as claimed: the failure terminator is never entered while an       *)
(* exchange session is open, the session being closed (CcExitVmgDone)      *)
(* before the guest is terminated.                                         *)
(***************************************************************************)
C11_SessionClosedBeforeTerminate == pc \in TermPcs => ~Ghcb.InUse

(***************************************************************************)
(* C11, amended: a session is closed, and the saved interrupt state given  *)
(* back, only by the step that finds the round complete.  When an exit     *)
(* request fails, the terminator is entered with the session still open    *)
(* and the saved interrupt state not given back, nothing of the session is *)
(* touched from then on, and it is never closed.                           *)
(***************************************************************************)
C11_FailedRoundLeavesSessionOpen ==
    [][/\ (pc = "vmg_wait" /\ pc' = "term_msr") =>
             /\ Ghcb.InUse /\ Ghcb'.InUse
             /\ Interrupts' = Interrupts
             /\ InterruptState' = InterruptState
             /\ VmgExitFailed(Status', Ghcb'.SwExitInfo2)
       /\ (Ghcb.InUse /\ ~Ghcb'.InUse) =>
             /\ pc = "vmg_loop" /\ pc' = "psc_loop"
             /\ ~VmgExitPending(Ghcb.SharedBuffer)
             /\ last'.op = "CcExitVmgDone"
             /\ Interrupts' = InterruptState
       /\ pc \in TermPcs =>
             /\ Ghcb'.InUse = Ghcb.InUse
             /\ Interrupts' = Interrupts
             /\ last'.op # "CcExitVmgDone"]_vars

\* The guest spins in CpuDeadLoop after a failed exit request, the session open
\* and the interrupts, enabled at the call, still masked
C11_Witness ==
    /\ pc = "deadloop"
    /\ VmgExitFailed(Status, Ghcb.SwExitInfo2)
    /\ Ghcb.InUse
    /\ InterruptState
    /\ ~Interrupts

(***************************************************************************)
(* C12: a round that completes opens its session once, before its first    *)
(* exit request, and closes it once, when the shared header has            *)
(* CurrentEntry > EndEntry, handing back the interrupt state that was      *)
(* saved when it was opened.  No session is opened while one is open,      *)
(* every exit request is issued in an open session, and no validate or     *)
(* invalidate operation is issued while a session is open.                 *)
(***************************************************************************)
C12_SessionState ==
    /\ Ghcb.InUse <=> (h.rounds = h.roundsDrained + 1)
    /\ ~Ghcb.InUse => (h.rounds = h.roundsDrained)
    /\ pc \in {"vmg_loop", "vmg_wait"} => Ghcb.InUse
    /\ pc \in {"isp_loop", "returned", "psc_enter", "psc_loop"} \cup PvPcs => ~Ghcb.InUse
    /\ Ghcb.InUse => InterruptState = arg.InterruptsEnabled
    /\ ~Ghcb.InUse => Interrupts = arg.InterruptsEnabled

C12_SessionStep ==
    /\ last'.op = "CcExitVmgInit" /\ last' # last =>
          /\ ~Ghcb.InUse /\ Ghcb'.InUse
          /\ ~h.exits \/ h.rounds = h.roundsDrained
          /\ InterruptState' = Interrupts
          /\ h'.rounds = h.rounds + 1
    /\ pc = "vmg_loop" /\ pc' = "vmg_wait" =>
          /\ Ghcb.InUse /\ Ghcb'.InUse
          /\ last'.op = "CcExitVmgExit"
    /\ last'.op = "CcExitVmgDone" /\ last' # last =>
          /\ Ghcb.InUse /\ ~Ghcb'.InUse
          /\ ~VmgExitPending(Ghcb.SharedBuffer)
          /\ Interrupts' = InterruptState
          /\ h'.roundsDrained = h.roundsDrained + 1
    /\ last'.op = "AsmPvalidate" /\ last' # last => ~Ghcb.InUse /\ ~Ghcb'.InUse
    /\ (Ghcb.InUse # Ghcb'.InUse) => last'.op \in {"CcExitVmgInit", "CcExitVmgDone"}

C12_OneSessionPerRound == []C12_SessionState /\ [][C12_SessionStep]_vars

\* The second round of a batch has been closed after a partial answer, the
\* interrupts, enabled at the call, enabled again
C12_Witness ==
    /\ last.op = "CcExitVmgDone"
    /\ h.roundsDrained = 2
    /\ h.partials > 0
    /\ ~Ghcb.InUse
    /\ Interrupts /\ InterruptState

(***************************************************************************)
(* C13: with a hypervisor that, at every exit request, reports a failure   *)
(* or completes at least one more entry, and with validate operations that *)
(* return, every call of InternalSetPageState, whatever the size of its    *)
(* batches, ends: it returns with the whole range processed or it enters   *)
(* the failure terminator, and rests there.                                *)
(***************************************************************************)
C13_EveryCallEnds ==
    <>[](\/ /\ pc = "returned"
             /\ h.valOK /\ h.valEnd = EndAddress
             /\ h.pscOK /\ h.pscEnd = EndAddress
         \/ pc \in TermPcs)

(***************************************************************************)
(* C14: with a hypervisor that answers every exit request with a zero      *)
(* status and a zero SwExitInfo2 and never takes CurrentEntry past         *)
(* EndEntry, a round that was opened never ends: control stays in the loop *)
(* of PageStateChangeVmgExit, the session stays open, the terminator is    *)
(* not entered, the call does not return, and exit requests are issued     *)
(* again and again.                                                        *)
(***************************************************************************)
C14_InStalledRound ==
    arg.Hypervisor = "stalling" /\ h.rounds > 0 =>
       /\ pc \in {"vmg_loop", "vmg_wait"}
       /\ Ghcb.InUse
       /\ VmgExitPending(Ghcb.SharedBuffer)
       /\ h.termCalls = 0
       /\ h.rounds = 1 /\ h.roundsDrained = 0

C14_StalledRoundStep ==
    arg.Hypervisor = "stalling" /\ pc \in {"vmg_loop", "vmg_wait"} =>
       /\ pc = "vmg_loop" => pc' = "vmg_wait" /\ last'.op = "CcExitVmgExit"
       /\ pc = "vmg_wait" => pc' = "vmg_loop" /\ Status' = 0 /\ Ghcb'.SwExitInfo2 = 0

C14_StalledRoundNeverEnds ==
    /\ []C14_InStalledRound
    /\ [][C14_StalledRoundStep]_vars
    /\ []<>(arg.Hypervisor = "stalling" /\ h.rounds > 0 => pc = "vmg_wait")
    /\ []<>(arg.Hypervisor = "stalling" /\ h.rounds > 0 => pc = "vmg_loop")

\* The hypervisor has completed entries of the round, not the last one, and the
\* exit request is issued once more
C14_Witness ==
    /\ arg.Hypervisor = "stalling"
    /\ h.partials = MaxPartial
    /\ Ghcb.SharedBuffer.Header.CurrentEntry = MaxPartial
    /\ Ghcb.SharedBuffer.Header.EndEntry = MaxPartial
    /\ pc = "vmg_wait"
    /\ last.op = "CcExitVmgExit"

(***************************************************************************)
(* C15: a call of BuildPageStateBuffer from a base below the end, with     *)
(* room for at least one entry, writes as many entries as the buffer holds *)
(* or as the range needs, whichever is less; the address it returns is the *)
(* base plus the sizes of the entries written, lies above the base and not *)
(* above the end.                                                          *)
(***************************************************************************)
\* The number of entries of the buffer the caller passed
Capacity == (arg.PscBufferSize - 8) \div 8

\* The number of granules that tile [base, end): 4 KiB pages up to the first
\* 2 MiB boundary, 2 MiB granules while 2 MiB remain, 4 KiB pages for the rest
GranulesNeeded(base, end, large) ==
    LET up == ((base + SIZE_2MB - 1) \div SIZE_2MB) * SIZE_2MB
    IN IF large /\ end - up >= SIZE_2MB
       THEN (up - base) \div EFI_PAGE_SIZE
               + (end - up) \div SIZE_2MB
               + ((end - up) % SIZE_2MB) \div EFI_PAGE_SIZE
       ELSE (end - base) \div EFI_PAGE_SIZE

\* The sizes of the entries of rs, added up
RECURSIVE RunsBytes(_)
RunsBytes(rs) ==
    IF rs = <<>> THEN 0
    ELSE Head(rs).count * EntryBytes(Head(rs).first) + RunsBytes(Tail(rs))

C15_BuildWritesWhatFitsOrIsNeeded ==
    h.batches > 0 =>
       /\ Capacity >= 1 /\ h.batchBase < EndAddress
       /\ h.built = Min(Capacity, GranulesNeeded(h.batchBase, EndAddress, arg.UseLargeEntry))
       /\ NextAddress = h.batchBase + RunsBytes(RunsSlice(Info.Entry, 0, h.built))
       /\ h.batchBase < NextAddress
       /\ NextAddress <= EndAddress

\* A second batch of one entry, all the range still needs, after a first one
\* that filled the buffer of two entries
C15_Witness ==
    /\ h.batches = 2
    /\ Capacity = 2
    /\ arg.NumPages = 3
    /\ h.built = 1
    /\ h.batchBase = arg.BaseAddress + 2 * EFI_PAGE_SIZE
    /\ NextAddress = EndAddress

(***************************************************************************)
(* C16: after a call of BuildPageStateBuffer, whatever the capacity of the *)
(* buffer, the header has CurrentEntry = 0 and EndEntry = the index of the *)
(* last entry written, so that CurrentEntry..EndEntry are the entries      *)
(* written by this call; every slot behind EndEntry is zero, and nothing   *)
(* of what the buffer held before is left.                                 *)
(***************************************************************************)
C16_HeaderSpansWrittenEntries ==
    h.batches > 0 =>
       LET end == Info.Header.EndEntry
       IN /\ Info.Header.CurrentEntry = 0
          /\ h.built >= 1
          /\ end = h.built - 1
          /\ Info.Header.CurrentEntry <= end + 1
          /\ RunsLen(Info.Entry) = Capacity
          /\ RunsSlice(Info.Entry, end + 1, Capacity - (end + 1))
                = RunsFill(ZeroEntry, Capacity - (end + 1))
          /\ \A r \in Range(RunsSlice(Info.Entry, 0, end + 1)) :
                r.first # StaleEntry /\ r.first.CurrentPage = 0

(***************************************************************************)
(* C17: PvalidateRange makes its first attempt on the entries of the batch *)
(* in increasing index order, once for each entry from CurrentEntry to     *)
(* EndEntry, with the entry's page size, the address GuestFrameNumber      *)
(* shifted left by the page shift, and the validate flag set exactly when  *)
(* the entry's operation is Private; a Shared transition issues no         *)
(* operation with the flag set, a Private transition none without it.      *)
(***************************************************************************)
C17_EntriesInOrder ==
    pc \in PvPcs \ {"pv_enter"} =>
       /\ StartIndex = Info.Header.CurrentEntry + h.valid
       /\ EndIndex = Info.Header.EndEntry

C17_FirstAttemptStep ==
    /\ pc = "pv_loop" /\ StartIndex <= EndIndex =>
          LET e == EntryAt(Info, StartIndex)
          IN /\ last'.op = "AsmPvalidate" /\ ~last'.sub
             /\ last'.addr = e.GuestFrameNumber * (2 ^ EFI_PAGE_SHIFT)
             /\ last'.size = e.PageSize
             /\ last'.validate = (e.Operation = SNP_PAGE_STATE_PRIVATE)
             /\ StartIndex' \in {StartIndex, StartIndex + 1}
             /\ StartIndex' = StartIndex + 1 <=> pc' = "pv_loop"
    /\ pc = "pv_loop" /\ ~(StartIndex <= EndIndex) =>
          /\ h.valid = Info.Header.EndEntry - Info.Header.CurrentEntry + 1
          /\ pc' \notin PvPcs
          /\ last' = last
    /\ last'.op = "AsmPvalidate" /\ last' # last /\ ~last'.sub => pc = "pv_loop"
    /\ last'.op = "AsmPvalidate" => last'.validate = (arg.State = "SevSnpPagePrivate")

C17_FirstAttemptPerEntry == []C17_EntriesInOrder /\ [][C17_FirstAttemptStep]_vars

\* The third entry of a Shared batch is next, after the invalidation of a
\* 2 MiB entry
C17_Witness ==
    /\ arg.State = "SevSnpPageShared"
    /\ pc = "pv_loop"
    /\ StartIndex = 2 /\ EndIndex = 2
    /\ last.op = "AsmPvalidate" /\ ~last.sub /\ ~last.validate
    /\ last.size = PvalidatePageSize2MB
    /\ last.addr = SIZE_2MB

(***************************************************************************)
(* C18: an entry is demoted at most once, and only a 2 MiB entry is.  A    *)
(* size mismatch on the first attempt of a 4 KiB entry, and a size         *)
(* mismatch or any other non-zero result of a 4 KiB operation of a         *)
(* demotion, lead to the failure terminator: nothing is retried and no     *)
(* later entry of the batch is processed.                                  *)
(***************************************************************************)
C18_DemotionStep ==
    /\ pc = "pv_loop" /\ pc' = "pv_demote" =>
          /\ EntryAt(Info, StartIndex).PageSize = PvalidatePageSize2MB
          /\ Ret' = PVALIDATE_RET_SIZE_MISMATCH
          /\ StartIndex' = StartIndex /\ PvIndex' = 0
    /\ (/\ pc = "pv_loop" /\ StartIndex <= EndIndex
        /\ EntryAt(Info, StartIndex).PageSize = PvalidatePageSize4K
        /\ Ret' # 0) =>
          pc' = "term_msr" /\ h'.termCalls = 1
    /\ pc = "pv_demote" =>
          /\ last'.op = "AsmPvalidate" /\ last'.sub
          /\ last'.size = PvalidatePageSize4K
          /\ Ret' # 0 => pc' = "term_msr" /\ h'.termCalls = 1
          /\ pc' = "pv_demote" => StartIndex' = StartIndex /\ PvIndex' = PvIndex + 1
          /\ pc' = "pv_loop" => StartIndex' = StartIndex + 1
          /\ pc' \in {"pv_demote", "pv_loop", "term_msr"}
    /\ pc \in PvPcs /\ pc' = "term_msr" =>
          /\ Ret' # 0
          /\ StartIndex' = StartIndex
          /\ h'.valid = h.valid
    /\ pc \in TermPcs =>
          /\ last'.op # "AsmPvalidate"
          /\ StartIndex' = StartIndex /\ PvIndex' = PvIndex
          /\ h'.valid = h.valid /\ h'.sub = h.sub

C18_DemotionOnceAndOnlyLarge == [][C18_DemotionStep]_vars

\* The terminator is entered on a size mismatch of a 4 KiB operation of a
\* demotion, after some of them succeeded, the batch having an entry behind
C18_Witness ==
    /\ pc = "term_msr"
    /\ Ret = PVALIDATE_RET_SIZE_MISMATCH
    /\ last.op = "AsmPvalidate" /\ last.sub
    /\ PvIndex > 0
    /\ StartIndex < EndIndex

(***************************************************************************)
(* C19: every slice that PageStateChange hands to PageStateChangeVmgExit   *)
(* has 1 <= Count <= SNP_PAGE_STATE_MAX_ENTRY: the test of line 199 never  *)
(* leads to the terminator, and EndEntry = Count - 1 of the shared header  *)
(* does not wrap below zero.                                               *)
(***************************************************************************)
C19_CountInRound ==
    pc \in {"vmg_loop", "vmg_wait"} =>
       /\ 1 <= Count /\ Count <= 253
       /\ Ghcb.SharedBuffer.Header.EndEntry = Count - 1
       /\ Ghcb.SharedBuffer.Header.EndEntry < 253

C19_RoundOpened ==
    pc = "psc_loop" /\ PscIndex <= Info.Header.EndEntry =>
       /\ pc' = "vmg_loop"
       /\ 1 <= Count' /\ Count' <= 253
       /\ Count' <= Info.Header.EndEntry - PscIndex + 1
       /\ h'.termCalls = 0

C19_SliceWithinMaximum == []C19_CountInRound /\ [][C19_RoundOpened]_vars

\* The second round of a batch of 254 entries carries one entry
C19_Witness ==
    /\ pc = "vmg_loop"
    /\ Info.Header.EndEntry = 253
    /\ PscIndex = 253
    /\ Count = 1
    /\ Ghcb.SharedBuffer.Header.EndEntry = 0
    /\ h.rounds = 2

(***************************************************************************)
(* C20: PageStateChange and its rounds leave the caller's batch, header    *)
(* and entries, as BuildPageStateBuffer wrote it: the rounds work on the   *)
(* copy in the shared buffer, and what the hypervisor writes there does    *)
(* not reach the batch.  In a Private transition the entries validated     *)
(* after the exchange are thus the entries that were built and sent for    *)
(* the batch, whatever the hypervisor did to the copy.                     *)
(***************************************************************************)
C20_BatchAfterExchange ==
    arg.State = "SevSnpPagePrivate" /\ pc \in PvPcs =>
       /\ h.pscOK /\ h.pscEnd = NextAddress
       /\ h.drained = h.built
       /\ Info.Header.CurrentEntry = 0
       /\ Info.Header.EndEntry = h.built - 1
       /\ \A r \in Range(RunsSlice(Info.Entry, 0, h.built)) :
             r.first.CurrentPage = 0 /\ r.first.Operation = SNP_PAGE_STATE_PRIVATE
       /\ h.emitOK /\ h.emitEnd = NextAddress
       /\ h.valOK /\ h.valEnd <= h.pscEnd
       /\ pc # "pv_enter" /\ StartIndex <= EndIndex =>
             LET e == EntryAt(Info, StartIndex)
             IN /\ h.batchBase <= e.GuestFrameNumber * EFI_PAGE_SIZE
                /\ e.GuestFrameNumber * EFI_PAGE_SIZE < h.pscEnd
                /\ pc = "pv_loop" => h.valEnd = e.GuestFrameNumber * EFI_PAGE_SIZE

C20_ExchangeStep ==
    /\ pc \in PscPcs => Info' = Info
    /\ (arg.State = "SevSnpPagePrivate" /\ pc = "pv_loop" /\ pc' = "isp_loop") =>
          h.valEnd = h.pscEnd /\ h.valEnd = NextAddress

C20_ExchangeLeavesBatch == []C20_BatchAfterExchange /\ [][C20_ExchangeStep]_vars

\* The third entry of a Private batch is to be validated; in the shared copy
\* the hypervisor has moved CurrentEntry and set CurrentPage of an entry
C20_Witness ==
    /\ arg.State = "SevSnpPagePrivate"
    /\ pc = "pv_loop"
    /\ StartIndex = 2 /\ EndIndex = 2
    /\ h.partials > 0
    /\ Ghcb.SharedBuffer.Header.CurrentEntry = 3
    /\ EntryAt(Ghcb.SharedBuffer, 1).CurrentPage = 1
    /\ Info.Header.CurrentEntry = 0
    /\ EntryAt(Info, 1).CurrentPage = 0

====
